---- MODULE Spec2Model ----
(***************************************************************************)
(* MindSweep backend (src/main.py): the POST /mindsweep handler with its   *)
(* primary/fallback model calls and its Firestore write, the GET /history  *)
(* handler, and the detect_language heuristic.                             *)
(*                                                                         *)
(* Text is a sequence of Unicode code points.  A response body is a set of *)
(* <<key, value>> pairs.  A handler that lets an exception escape ends     *)
(* with outcome "raised" (the framework answers HTTP 500).                 *)
(***************************************************************************)
EXTENDS Integers, Sequences, FiniteSets

VARIABLES
    text,      \* classifier harness: the input of detect_language
    label,     \* classifier harness: its result, "unclassified" before the call
    store,     \* the "mindsweeps" collection: a set of documents
    clock,     \* the wall clock datetime.utcnow() reads, in ticks
    req,       \* per POST /mindsweep request: position and locals of the handler
    lastAdd,   \* the request whose add() committed last, 0 when none has
    hist       \* the most recent GET /history: response and what it read

vars == <<text, label, store, clock, req, lastAdd, hist>>

---------------------------------------------------------------------------
(* Bounds of the model *)

\* longest text given to detect_language in the classifier harness
MaxLen == 6

\* number of POST /mindsweep requests in flight or finished
NumRequests == 2

\* most entries GET /history has appended when its read fails
MaxAppended == 1

---------------------------------------------------------------------------
(* Program constants *)

MAIN_MODEL == "gemini-2.5-pro"
FALLBACK_MODEL == "gemini-1.5-flash"

\* "ऀ" and "ॿ", the ends of the range detect_language counts
DEVANAGARI_FIRST == 2304
DEVANAGARI_LAST == 2431

\* hindi_chars > 3
HINDI_THRESHOLD == 3

\* .limit(20)
HISTORY_LIMIT == 20

\* the hinglish_words list, each word as its code points
hinglish_words ==
    << <<107,121,117>>, <<107,97,105,115,101>>, <<97,105,115,97>>,
       <<119,97,105,115,101>>, <<109,117,106,104,101>>, <<109,101,114,97>>,
       <<116,101,114,97>>, <<107,121,97>>, <<104,111,116,97>>,
       <<104,111,103,97,121,97>>, <<97,99,104,97>>, <<97,99,99,104,97>>,
       <<110,97,104,105>>, <<110,104,105>>, <<121,114,114>>,
       <<98,104,97,105>>, <<115,97,109,106,104,97>>, <<115,97,109,106,104>>,
       <<109,97,116,108,97,98>>, <<98,111,108>>, <<107,114>>,
       <<100,105,108>>, <<121,97,97,114>>, <<109,97,110,110>>,
       <<108,97,103>>, <<102,101,101,108>> >>

---------------------------------------------------------------------------
(* detect_language *)

\* str.lower() of CPython 3.11 (Unicode 14.0), tabulated.  Each run
\* <<first, last, step, delta>> says: the code points first, first + step,
\* ..., last have the single lower-case code point c + delta
LOWER_RUNS ==
    << <<65,90,1,32>>, <<192,214,1,32>>, <<216,222,1,32>>, <<256,302,2,1>>,
       <<306,310,2,1>>, <<313,327,2,1>>, <<330,374,2,1>>, <<376,376,1,-121>>,
       <<377,381,2,1>>, <<385,385,1,210>>, <<386,388,2,1>>, <<390,390,1,206>>,
       <<391,391,1,1>>, <<393,394,1,205>>, <<395,395,1,1>>, <<398,398,1,79>>,
       <<399,399,1,202>>, <<400,400,1,203>>, <<401,401,1,1>>, <<403,403,1,205>>,
       <<404,404,1,207>>, <<406,406,1,211>>, <<407,407,1,209>>, <<408,408,1,1>>,
       <<412,412,1,211>>, <<413,413,1,213>>, <<415,415,1,214>>, <<416,420,2,1>>,
       <<422,422,1,218>>, <<423,423,1,1>>, <<425,425,1,218>>, <<428,428,1,1>>,
       <<430,430,1,218>>, <<431,431,1,1>>, <<433,434,1,217>>, <<435,437,2,1>>,
       <<439,439,1,219>>, <<440,440,1,1>>, <<444,444,1,1>>, <<452,452,1,2>>,
       <<453,453,1,1>>, <<455,455,1,2>>, <<456,456,1,1>>, <<458,458,1,2>>,
       <<459,475,2,1>>, <<478,494,2,1>>, <<497,497,1,2>>, <<498,500,2,1>>,
       <<502,502,1,-97>>, <<503,503,1,-56>>, <<504,542,2,1>>, <<544,544,1,-130>>,
       <<546,562,2,1>>, <<570,570,1,10795>>, <<571,571,1,1>>, <<573,573,1,-163>>,
       <<574,574,1,10792>>, <<577,577,1,1>>, <<579,579,1,-195>>, <<580,580,1,69>>,
       <<581,581,1,71>>, <<582,590,2,1>>, <<880,882,2,1>>, <<886,886,1,1>>,
       <<895,895,1,116>>, <<902,902,1,38>>, <<904,906,1,37>>, <<908,908,1,64>>,
       <<910,911,1,63>>, <<913,929,1,32>>, <<931,939,1,32>>, <<975,975,1,8>>,
       <<984,1006,2,1>>, <<1012,1012,1,-60>>, <<1015,1015,1,1>>, <<1017,1017,1,-7>>,
       <<1018,1018,1,1>>, <<1021,1023,1,-130>>, <<1024,1039,1,80>>, <<1040,1071,1,32>>,
       <<1120,1152,2,1>>, <<1162,1214,2,1>>, <<1216,1216,1,15>>, <<1217,1229,2,1>>,
       <<1232,1326,2,1>>, <<1329,1366,1,48>>, <<4256,4293,1,7264>>, <<4295,4295,1,7264>>,
       <<4301,4301,1,7264>>, <<5024,5103,1,38864>>, <<5104,5109,1,8>>, <<7312,7354,1,-3008>>,
       <<7357,7359,1,-3008>>, <<7680,7828,2,1>>, <<7838,7838,1,-7615>>, <<7840,7934,2,1>>,
       <<7944,7951,1,-8>>, <<7960,7965,1,-8>>, <<7976,7983,1,-8>>, <<7992,7999,1,-8>>,
       <<8008,8013,1,-8>>, <<8025,8031,2,-8>>, <<8040,8047,1,-8>>, <<8072,8079,1,-8>>,
       <<8088,8095,1,-8>>, <<8104,8111,1,-8>>, <<8120,8121,1,-8>>, <<8122,8123,1,-74>>,
       <<8124,8124,1,-9>>, <<8136,8139,1,-86>>, <<8140,8140,1,-9>>, <<8152,8153,1,-8>>,
       <<8154,8155,1,-100>>, <<8168,8169,1,-8>>, <<8170,8171,1,-112>>, <<8172,8172,1,-7>>,
       <<8184,8185,1,-128>>, <<8186,8187,1,-126>>, <<8188,8188,1,-9>>, <<8486,8486,1,-7517>>,
       <<8490,8490,1,-8383>>, <<8491,8491,1,-8262>>, <<8498,8498,1,28>>, <<8544,8559,1,16>>,
       <<8579,8579,1,1>>, <<9398,9423,1,26>>, <<11264,11311,1,48>>, <<11360,11360,1,1>>,
       <<11362,11362,1,-10743>>, <<11363,11363,1,-3814>>, <<11364,11364,1,-10727>>, <<11367,11371,2,1>>,
       <<11373,11373,1,-10780>>, <<11374,11374,1,-10749>>, <<11375,11375,1,-10783>>, <<11376,11376,1,-10782>>,
       <<11378,11378,1,1>>, <<11381,11381,1,1>>, <<11390,11391,1,-10815>>, <<11392,11490,2,1>>,
       <<11499,11501,2,1>>, <<11506,11506,1,1>>, <<42560,42604,2,1>>, <<42624,42650,2,1>>,
       <<42786,42798,2,1>>, <<42802,42862,2,1>>, <<42873,42875,2,1>>, <<42877,42877,1,-35332>>,
       <<42878,42886,2,1>>, <<42891,42891,1,1>>, <<42893,42893,1,-42280>>, <<42896,42898,2,1>>,
       <<42902,42920,2,1>>, <<42922,42922,1,-42308>>, <<42923,42923,1,-42319>>, <<42924,42924,1,-42315>>,
       <<42925,42925,1,-42305>>, <<42926,42926,1,-42308>>, <<42928,42928,1,-42258>>, <<42929,42929,1,-42282>>,
       <<42930,42930,1,-42261>>, <<42931,42931,1,928>>, <<42932,42946,2,1>>, <<42948,42948,1,-48>>,
       <<42949,42949,1,-42307>>, <<42950,42950,1,-35384>>, <<42951,42953,2,1>>, <<42960,42960,1,1>>,
       <<42966,42968,2,1>>, <<42997,42997,1,1>>, <<65313,65338,1,32>>, <<66560,66599,1,40>>,
       <<66736,66771,1,40>>, <<66928,66938,1,39>>, <<66940,66954,1,39>>, <<66956,66962,1,39>>,
       <<66964,66965,1,39>>, <<68736,68786,1,64>>, <<71840,71871,1,32>>, <<93760,93791,1,32>>,
       <<125184,125217,1,34>> >>

\* the code points str.lower() skips when it looks for a cased letter
\* around a capital sigma, as ranges <<first, last>>
CASE_IGNORABLE ==
    << <<39,39>>, <<46,46>>, <<58,58>>, <<94,94>>, <<96,96>>, <<168,168>>,
       <<173,173>>, <<175,175>>, <<180,180>>, <<183,184>>, <<688,879>>, <<884,885>>,
       <<890,890>>, <<900,901>>, <<903,903>>, <<1155,1161>>, <<1369,1369>>, <<1375,1375>>,
       <<1425,1469>>, <<1471,1471>>, <<1473,1474>>, <<1476,1477>>, <<1479,1479>>, <<1524,1524>>,
       <<1536,1541>>, <<1552,1562>>, <<1564,1564>>, <<1600,1600>>, <<1611,1631>>, <<1648,1648>>,
       <<1750,1757>>, <<1759,1768>>, <<1770,1773>>, <<1807,1807>>, <<1809,1809>>, <<1840,1866>>,
       <<1958,1968>>, <<2027,2037>>, <<2042,2042>>, <<2045,2045>>, <<2070,2093>>, <<2137,2139>>,
       <<2184,2184>>, <<2192,2193>>, <<2200,2207>>, <<2249,2306>>, <<2362,2362>>, <<2364,2364>>,
       <<2369,2376>>, <<2381,2381>>, <<2385,2391>>, <<2402,2403>>, <<2417,2417>>, <<2433,2433>>,
       <<2492,2492>>, <<2497,2500>>, <<2509,2509>>, <<2530,2531>>, <<2558,2558>>, <<2561,2562>>,
       <<2620,2620>>, <<2625,2626>>, <<2631,2632>>, <<2635,2637>>, <<2641,2641>>, <<2672,2673>>,
       <<2677,2677>>, <<2689,2690>>, <<2748,2748>>, <<2753,2757>>, <<2759,2760>>, <<2765,2765>>,
       <<2786,2787>>, <<2810,2815>>, <<2817,2817>>, <<2876,2876>>, <<2879,2879>>, <<2881,2884>>,
       <<2893,2893>>, <<2901,2902>>, <<2914,2915>>, <<2946,2946>>, <<3008,3008>>, <<3021,3021>>,
       <<3072,3072>>, <<3076,3076>>, <<3132,3132>>, <<3134,3136>>, <<3142,3144>>, <<3146,3149>>,
       <<3157,3158>>, <<3170,3171>>, <<3201,3201>>, <<3260,3260>>, <<3263,3263>>, <<3270,3270>>,
       <<3276,3277>>, <<3298,3299>>, <<3328,3329>>, <<3387,3388>>, <<3393,3396>>, <<3405,3405>>,
       <<3426,3427>>, <<3457,3457>>, <<3530,3530>>, <<3538,3540>>, <<3542,3542>>, <<3633,3633>>,
       <<3636,3642>>, <<3654,3662>>, <<3761,3761>>, <<3764,3772>>, <<3782,3782>>, <<3784,3789>>,
       <<3864,3865>>, <<3893,3893>>, <<3895,3895>>, <<3897,3897>>, <<3953,3966>>, <<3968,3972>>,
       <<3974,3975>>, <<3981,3991>>, <<3993,4028>>, <<4038,4038>>, <<4141,4144>>, <<4146,4151>>,
       <<4153,4154>>, <<4157,4158>>, <<4184,4185>>, <<4190,4192>>, <<4209,4212>>, <<4226,4226>>,
       <<4229,4230>>, <<4237,4237>>, <<4253,4253>>, <<4348,4348>>, <<4957,4959>>, <<5906,5908>>,
       <<5938,5939>>, <<5970,5971>>, <<6002,6003>>, <<6068,6069>>, <<6071,6077>>, <<6086,6086>>,
       <<6089,6099>>, <<6103,6103>>, <<6109,6109>>, <<6155,6159>>, <<6211,6211>>, <<6277,6278>>,
       <<6313,6313>>, <<6432,6434>>, <<6439,6440>>, <<6450,6450>>, <<6457,6459>>, <<6679,6680>>,
       <<6683,6683>>, <<6742,6742>>, <<6744,6750>>, <<6752,6752>>, <<6754,6754>>, <<6757,6764>>,
       <<6771,6780>>, <<6783,6783>>, <<6823,6823>>, <<6832,6862>>, <<6912,6915>>, <<6964,6964>>,
       <<6966,6970>>, <<6972,6972>>, <<6978,6978>>, <<7019,7027>>, <<7040,7041>>, <<7074,7077>>,
       <<7080,7081>>, <<7083,7085>>, <<7142,7142>>, <<7144,7145>>, <<7149,7149>>, <<7151,7153>>,
       <<7212,7219>>, <<7222,7223>>, <<7288,7293>>, <<7376,7378>>, <<7380,7392>>, <<7394,7400>>,
       <<7405,7405>>, <<7412,7412>>, <<7416,7417>>, <<7468,7530>>, <<7544,7544>>, <<7579,7679>>,
       <<8125,8125>>, <<8127,8129>>, <<8141,8143>>, <<8157,8159>>, <<8173,8175>>, <<8189,8190>>,
       <<8203,8207>>, <<8216,8217>>, <<8228,8228>>, <<8231,8231>>, <<8234,8238>>, <<8288,8292>>,
       <<8294,8303>>, <<8305,8305>>, <<8319,8319>>, <<8336,8348>>, <<8400,8432>>, <<11388,11389>>,
       <<11503,11505>>, <<11631,11631>>, <<11647,11647>>, <<11744,11775>>, <<11823,11823>>, <<12293,12293>>,
       <<12330,12333>>, <<12337,12341>>, <<12347,12347>>, <<12441,12446>>, <<12540,12542>>, <<40981,40981>>,
       <<42232,42237>>, <<42508,42508>>, <<42607,42610>>, <<42612,42621>>, <<42623,42623>>, <<42652,42655>>,
       <<42736,42737>>, <<42752,42785>>, <<42864,42864>>, <<42888,42890>>, <<42994,42996>>, <<43000,43001>>,
       <<43010,43010>>, <<43014,43014>>, <<43019,43019>>, <<43045,43046>>, <<43052,43052>>, <<43204,43205>>,
       <<43232,43249>>, <<43263,43263>>, <<43302,43309>>, <<43335,43345>>, <<43392,43394>>, <<43443,43443>>,
       <<43446,43449>>, <<43452,43453>>, <<43471,43471>>, <<43493,43494>>, <<43561,43566>>, <<43569,43570>>,
       <<43573,43574>>, <<43587,43587>>, <<43596,43596>>, <<43632,43632>>, <<43644,43644>>, <<43696,43696>>,
       <<43698,43700>>, <<43703,43704>>, <<43710,43711>>, <<43713,43713>>, <<43741,43741>>, <<43756,43757>>,
       <<43763,43764>>, <<43766,43766>>, <<43867,43871>>, <<43881,43883>>, <<44005,44005>>, <<44008,44008>>,
       <<44013,44013>>, <<64286,64286>>, <<64434,64450>>, <<65024,65039>>, <<65043,65043>>, <<65056,65071>>,
       <<65106,65106>>, <<65109,65109>>, <<65279,65279>>, <<65287,65287>>, <<65294,65294>>, <<65306,65306>>,
       <<65342,65342>>, <<65344,65344>>, <<65392,65392>>, <<65438,65439>>, <<65507,65507>>, <<65529,65531>>,
       <<66045,66045>>, <<66272,66272>>, <<66422,66426>>, <<67456,67461>>, <<67463,67504>>, <<67506,67514>>,
       <<68097,68099>>, <<68101,68102>>, <<68108,68111>>, <<68152,68154>>, <<68159,68159>>, <<68325,68326>>,
       <<68900,68903>>, <<69291,69292>>, <<69446,69456>>, <<69506,69509>>, <<69633,69633>>, <<69688,69702>>,
       <<69744,69744>>, <<69747,69748>>, <<69759,69761>>, <<69811,69814>>, <<69817,69818>>, <<69821,69821>>,
       <<69826,69826>>, <<69837,69837>>, <<69888,69890>>, <<69927,69931>>, <<69933,69940>>, <<70003,70003>>,
       <<70016,70017>>, <<70070,70078>>, <<70089,70092>>, <<70095,70095>>, <<70191,70193>>, <<70196,70196>>,
       <<70198,70199>>, <<70206,70206>>, <<70367,70367>>, <<70371,70378>>, <<70400,70401>>, <<70459,70460>>,
       <<70464,70464>>, <<70502,70508>>, <<70512,70516>>, <<70712,70719>>, <<70722,70724>>, <<70726,70726>>,
       <<70750,70750>>, <<70835,70840>>, <<70842,70842>>, <<70847,70848>>, <<70850,70851>>, <<71090,71093>>,
       <<71100,71101>>, <<71103,71104>>, <<71132,71133>>, <<71219,71226>>, <<71229,71229>>, <<71231,71232>>,
       <<71339,71339>>, <<71341,71341>>, <<71344,71349>>, <<71351,71351>>, <<71453,71455>>, <<71458,71461>>,
       <<71463,71467>>, <<71727,71735>>, <<71737,71738>>, <<71995,71996>>, <<71998,71998>>, <<72003,72003>>,
       <<72148,72151>>, <<72154,72155>>, <<72160,72160>>, <<72193,72202>>, <<72243,72248>>, <<72251,72254>>,
       <<72263,72263>>, <<72273,72278>>, <<72281,72283>>, <<72330,72342>>, <<72344,72345>>, <<72752,72758>>,
       <<72760,72765>>, <<72767,72767>>, <<72850,72871>>, <<72874,72880>>, <<72882,72883>>, <<72885,72886>>,
       <<73009,73014>>, <<73018,73018>>, <<73020,73021>>, <<73023,73029>>, <<73031,73031>>, <<73104,73105>>,
       <<73109,73109>>, <<73111,73111>>, <<73459,73460>>, <<78896,78904>>, <<92912,92916>>, <<92976,92982>>,
       <<92992,92995>>, <<94031,94031>>, <<94095,94111>>, <<94176,94177>>, <<94179,94180>>, <<110576,110579>>,
       <<110581,110587>>, <<110589,110590>>, <<113821,113822>>, <<113824,113827>>, <<118528,118573>>, <<118576,118598>>,
       <<119143,119145>>, <<119155,119170>>, <<119173,119179>>, <<119210,119213>>, <<119362,119364>>, <<121344,121398>>,
       <<121403,121452>>, <<121461,121461>>, <<121476,121476>>, <<121499,121503>>, <<121505,121519>>, <<122880,122886>>,
       <<122888,122904>>, <<122907,122913>>, <<122915,122916>>, <<122918,122922>>, <<123184,123197>>, <<123566,123566>>,
       <<123628,123631>>, <<125136,125142>>, <<125252,125259>>, <<127995,127999>>, <<917505,917505>>, <<917536,917631>>,
       <<917760,917999>> >>

\* the cased code points that are not skipped, as ranges <<first, last>>
CASED ==
    << <<65,90>>, <<97,122>>, <<170,170>>, <<181,181>>, <<186,186>>, <<192,214>>,
       <<216,246>>, <<248,442>>, <<444,447>>, <<452,659>>, <<661,687>>, <<880,883>>,
       <<886,887>>, <<891,893>>, <<895,895>>, <<902,902>>, <<904,906>>, <<908,908>>,
       <<910,929>>, <<931,1013>>, <<1015,1153>>, <<1162,1327>>, <<1329,1366>>, <<1376,1416>>,
       <<4256,4293>>, <<4295,4295>>, <<4301,4301>>, <<4304,4346>>, <<4349,4351>>, <<5024,5109>>,
       <<5112,5117>>, <<7296,7304>>, <<7312,7354>>, <<7357,7359>>, <<7424,7467>>, <<7531,7543>>,
       <<7545,7578>>, <<7680,7957>>, <<7960,7965>>, <<7968,8005>>, <<8008,8013>>, <<8016,8023>>,
       <<8025,8025>>, <<8027,8027>>, <<8029,8029>>, <<8031,8061>>, <<8064,8116>>, <<8118,8124>>,
       <<8126,8126>>, <<8130,8132>>, <<8134,8140>>, <<8144,8147>>, <<8150,8155>>, <<8160,8172>>,
       <<8178,8180>>, <<8182,8188>>, <<8450,8450>>, <<8455,8455>>, <<8458,8467>>, <<8469,8469>>,
       <<8473,8477>>, <<8484,8484>>, <<8486,8486>>, <<8488,8488>>, <<8490,8493>>, <<8495,8500>>,
       <<8505,8505>>, <<8508,8511>>, <<8517,8521>>, <<8526,8526>>, <<8544,8575>>, <<8579,8580>>,
       <<9398,9449>>, <<11264,11387>>, <<11390,11492>>, <<11499,11502>>, <<11506,11507>>, <<11520,11557>>,
       <<11559,11559>>, <<11565,11565>>, <<42560,42605>>, <<42624,42651>>, <<42786,42863>>, <<42865,42887>>,
       <<42891,42894>>, <<42896,42954>>, <<42960,42961>>, <<42963,42963>>, <<42965,42969>>, <<42997,42998>>,
       <<43002,43002>>, <<43824,43866>>, <<43872,43880>>, <<43888,43967>>, <<64256,64262>>, <<64275,64279>>,
       <<65313,65338>>, <<65345,65370>>, <<66560,66639>>, <<66736,66771>>, <<66776,66811>>, <<66928,66938>>,
       <<66940,66954>>, <<66956,66962>>, <<66964,66965>>, <<66967,66977>>, <<66979,66993>>, <<66995,67001>>,
       <<67003,67004>>, <<68736,68786>>, <<68800,68850>>, <<71840,71903>>, <<93760,93823>>, <<119808,119892>>,
       <<119894,119964>>, <<119966,119967>>, <<119970,119970>>, <<119973,119974>>, <<119977,119980>>, <<119982,119993>>,
       <<119995,119995>>, <<119997,120003>>, <<120005,120069>>, <<120071,120074>>, <<120077,120084>>, <<120086,120092>>,
       <<120094,120121>>, <<120123,120126>>, <<120128,120132>>, <<120134,120134>>, <<120138,120144>>, <<120146,120485>>,
       <<120488,120512>>, <<120514,120538>>, <<120540,120570>>, <<120572,120596>>, <<120598,120628>>, <<120630,120654>>,
       <<120656,120686>>, <<120688,120712>>, <<120714,120744>>, <<120746,120770>>, <<120772,120779>>, <<122624,122633>>,
       <<122635,122654>>, <<125184,125251>>, <<127280,127305>>, <<127312,127337>>, <<127344,127369>> >>

InRanges(c, ranges) ==
    \E k \in 1..Len(ranges) : ranges[k][1] <= c /\ c <= ranges[k][2]

\* the last run of LOWER_RUNS[lo..hi] that starts at or before c, 0 if none
RECURSIVE RunIndex(_, _, _)
RunIndex(c, lo, hi) ==
    IF lo > hi THEN lo - 1
    ELSE LET mid == (lo + hi) \div 2
         IN IF LOWER_RUNS[mid][1] <= c THEN RunIndex(c, mid + 1, hi)
            ELSE RunIndex(c, lo, mid - 1)

\* the lower case of one code point where its neighbours do not matter:
\* U+0130 alone gives two code points
LowerChar(c) ==
    IF c < 128 THEN (IF c >= 65 /\ c <= 90 THEN <<c + 32>> ELSE <<c>>)
    ELSE IF c = 304 THEN <<105, 775>>
    ELSE LET k == RunIndex(c, 1, Len(LOWER_RUNS))
         IN IF k = 0 THEN <<c>>
            ELSE LET run == LOWER_RUNS[k]
                 IN IF c <= run[2] /\ (c - run[1]) % run[3] = 0
                    THEN <<c + run[4]>>
                    ELSE <<c>>

\* the nearest position before i (dir = -1) or after i (dir = 1) whose code
\* point is not case-ignorable; 0 or Len(s) + 1 when there is none
RECURSIVE SkipIgnorable(_, _, _)
SkipIgnorable(s, i, dir) ==
    LET j == i + dir
    IN IF j < 1 \/ j > Len(s) THEN j
       ELSE IF InRanges(s[j], CASE_IGNORABLE) THEN SkipIgnorable(s, j, dir)
       ELSE j

\* a capital sigma at i ends a word: a cased letter comes before it and
\* none after it
FinalSigma(s, i) ==
    LET before == SkipIgnorable(s, i, -1)
        after == SkipIgnorable(s, i, 1)
    IN /\ before >= 1
       /\ InRanges(s[before], CASED)
       /\ (after > Len(s) \/ ~InRanges(s[after], CASED))

\* text.lower(): code point by code point, U+03A3 by its place in the word
RECURSIVE LowerFrom(_, _)
LowerFrom(s, i) ==
    IF i > Len(s) THEN <<>>
    ELSE (IF s[i] = 931
          THEN (IF FinalSigma(s, i) THEN <<962>> ELSE <<963>>)
          ELSE LowerChar(s[i])) \o LowerFrom(s, i + 1)

Lower(s) == LowerFrom(s, 1)

\* "ऀ" <= c <= "ॿ"
IsHindiChar(c) == c >= DEVANAGARI_FIRST /\ c <= DEVANAGARI_LAST

\* sum(1 for c in text if "ऀ" <= c <= "ॿ")
RECURSIVE hindi_chars(_)
hindi_chars(s) ==
    IF s = <<>> THEN 0
    ELSE (IF IsHindiChar(Head(s)) THEN 1 ELSE 0) + hindi_chars(Tail(s))

\* w in s, Python's substring test
Contains(s, w) ==
    \E i \in 1..(Len(s) - Len(w) + 1) : SubSeq(s, i, i + Len(w) - 1) = w

\* any(w in text.lower() for w in hinglish_words)
HasHinglishWord(s) ==
    LET lowered == Lower(s)
    IN \E k \in 1..Len(hinglish_words) : Contains(lowered, hinglish_words[k])

\* detect_language with the keyword test on the text as given, not lower-cased
detect_language_nolower(s) ==
    IF hindi_chars(s) > HINDI_THRESHOLD THEN "hindi"
    ELSE IF \E k \in 1..Len(hinglish_words) : Contains(s, hinglish_words[k])
         THEN "hinglish"
    ELSE "english"

detect_language(s) ==
    IF hindi_chars(s) > HINDI_THRESHOLD THEN "hindi"
    ELSE IF HasHinglishWord(s) THEN "hinglish"
    ELSE "english"

---------------------------------------------------------------------------
(* Inputs of the handlers *)

\* the characters of the classifier harness: "K", "k", "r", the first and
\* the last Devanagari code point, the Bengali code point that follows, and
\* the Kelvin sign U+212A, whose lower case is "k"
Alphabet == {75, 107, 114, 2304, 2431, 2432, 8490}

TextsUpTo(n) == UNION {[1..k -> Alphabet] : k \in 0..n}

\* the message of a request: "hi", "Kr", and the four code points of "मुझे"
Messages == { <<104, 105>>, <<75, 114>>, <<2350, 2369, 2333, 2375>> }

\* what a model call gives back: generated text, or an exception
GeneratedTexts == {"clarity-A", "clarity-B"}
CallOk(t) == [ok |-> TRUE, text |-> t]
CallFailed == [ok |-> FALSE, text |-> ""]
CallResults == {CallOk(t) : t \in GeneratedTexts} \cup {CallFailed}

Requests == 1..NumRequests

\* the collection persists across restarts: it starts empty, or one short of
\* the history limit, filled by earlier runs of the service
InitialCounts == {0, HISTORY_LIMIT - 1}

EarlierDoc(i) ==
    [id |-> i, message |-> <<104, 105>>, clarity |-> "clarity-A",
     timestamp |-> (i + 1) \div 2, by |-> 0]

EarlierStore(k) == {EarlierDoc(i) : i \in 1..k}

\* auto-generated document ids of the documents the requests add
NewIds == (HISTORY_LIMIT + 1)..(HISTORY_LIMIT + NumRequests)

---------------------------------------------------------------------------
(* POST /mindsweep *)

\* lines 175-180
LanguageInstruction(lang) ==
    IF lang = "hindi" THEN "Respond completely in **simple Hindi**."
    ELSE IF lang = "hinglish"
         THEN "Respond completely in **Hinglish** (Hindi in Roman English)."
    ELSE "Respond in **simple warm English**."

\* the literal text of the f-string of lines 183-231
PROMPT_TEMPLATE == "You are MindSweep AI ... without trying to fix them."

\* The prompt as the sequence of the f-string's parts, each <<kind, value>>:
\* the f-string has no replacement field, so it is its literal text alone
Prompt(language_instruction, message) == << <<"literal", PROMPT_TEMPLATE>> >>

Call(model, prompt, result) == [model |-> model, prompt |-> prompt, result |-> result]

\* line 254
PersistedResponse(clarity) == { <<"clarity", clarity>> }

\* line 252
PersistFailedResponse(clarity) ==
    { <<"clarity", clarity>>, <<"warning", "Saved locally, not in DB">> }

IdleRequest ==
    [pc |-> "idle", outcome |-> "pending", message |-> <<>>, lang |-> "",
     language_instruction |-> "", prompt |-> <<>>, calls |-> <<>>,
     clarity |-> "", timestamp |-> -1, response |-> {}, log |-> <<>>]

\* the handler if it went on to the fallback call whatever the primary gave
MindsweepPrimaryAlwaysFallback(r) ==
    /\ req[r].pc = "idle"
    /\ \E m \in Messages, result \in CallResults :
         LET lang == detect_language(m)
             instruction == LanguageInstruction(lang)
             prompt == Prompt(instruction, m)
         IN req' = [req EXCEPT ![r] =
                [@ EXCEPT !.message = m, !.lang = lang,
                          !.language_instruction = instruction,
                          !.prompt = prompt,
                          !.calls = <<Call(MAIN_MODEL, prompt, result)>>,
                          !.clarity = result.text,
                          !.log = <<"incoming">>,
                          !.pc = "fallback"]]
    /\ UNCHANGED <<text, label, store, clock, lastAdd, hist>>

\* lines 170-239: the request arrives, the language is detected, the prompt
\* composed and the primary model called
MindsweepPrimary(r) ==
    /\ req[r].pc = "idle"
    /\ \E m \in Messages, result \in CallResults :
         LET lang == detect_language(m)
             instruction == LanguageInstruction(lang)
             prompt == Prompt(instruction, m)
         IN req' = [req EXCEPT ![r] =
                [@ EXCEPT !.message = m, !.lang = lang,
                          !.language_instruction = instruction,
                          !.prompt = prompt,
                          !.calls = <<Call(MAIN_MODEL, prompt, result)>>,
                          !.clarity = IF result.ok THEN result.text ELSE "",
                          !.log = IF result.ok
                                  THEN <<"incoming", "generated">>
                                  ELSE <<"incoming", "main_failed">>,
                          !.pc = IF result.ok THEN "completed" ELSE "fallback"]]
    /\ UNCHANGED <<text, label, store, clock, lastAdd, hist>>

\* the handler if it swallowed a failure of the fallback call and went on
MindsweepFallbackSwallow(r) ==
    /\ req[r].pc = "fallback"
    /\ \E result \in CallResults :
         req' = [req EXCEPT ![r] =
                [@ EXCEPT !.calls = Append(@, Call(FALLBACK_MODEL, req[r].prompt, result)),
                          !.clarity = result.text,
                          !.pc = "completed"]]
    /\ UNCHANGED <<text, label, store, clock, lastAdd, hist>>

\* the handler if it did not keep the text of the fallback call
MindsweepFallbackDropsText(r) ==
    /\ req[r].pc = "fallback"
    /\ \E result \in CallResults :
         req' = [req EXCEPT ![r] =
                [@ EXCEPT !.calls = Append(@, Call(FALLBACK_MODEL, req[r].prompt, result)),
                          !.pc = IF result.ok THEN "completed" ELSE "done",
                          !.outcome = IF result.ok THEN "pending" ELSE "raised"]]
    /\ UNCHANGED <<text, label, store, clock, lastAdd, hist>>

\* lines 240-241, in the except branch: the fallback model is called with
\* the same prompt; nothing catches an exception of this call
MindsweepFallback(r) ==
    /\ req[r].pc = "fallback"
    /\ \E result \in CallResults :
         req' = [req EXCEPT ![r] =
                [@ EXCEPT !.calls = Append(@, Call(FALLBACK_MODEL, req[r].prompt, result)),
                          !.clarity = IF result.ok THEN result.text ELSE "",
                          !.pc = IF result.ok THEN "completed" ELSE "done",
                          !.outcome = IF result.ok THEN "pending" ELSE "raised"]]
    /\ UNCHANGED <<text, label, store, clock, lastAdd, hist>>

\* lines 245-249: the document is built, its timestamp read from the wall
\* clock of the handler; the clock has moved on since the last reading or
\* it has not
MindsweepStamp(r) ==
    /\ req[r].pc = "completed"
    /\ \E t \in {clock, clock + 1} :
         /\ clock' = t
         /\ req' = [req EXCEPT ![r] = [@ EXCEPT !.timestamp = t, !.pc = "writing"]]
    /\ UNCHANGED <<text, label, store, lastAdd, hist>>

\* the document of lines 245-249 as the collection holds it
Document(r, id) ==
    [id |-> id, message |-> req[r].message, clarity |-> req[r].clarity,
     timestamp |-> req[r].timestamp, by |-> r]

\* the handler if it did not catch the exception of add()
MindsweepAddRaises(r) ==
    /\ req[r].pc = "writing"
    /\ \/ \E id \in NewIds \ {d.id : d \in store} :
            /\ store' = store \cup {Document(r, id)}
            /\ lastAdd' = r
            /\ req' = [req EXCEPT ![r] =
                   [@ EXCEPT !.response = PersistedResponse(req[r].clarity),
                             !.pc = "done", !.outcome = "returned"]]
       \/ /\ UNCHANGED <<store, lastAdd>>
          /\ req' = [req EXCEPT ![r] =
                 [@ EXCEPT !.pc = "done", !.outcome = "raised"]]
    /\ UNCHANGED <<text, label, clock, hist>>

\* lines 245-254: add() commits the document under a fresh id and the
\* handler returns the text, or add() raises and the handler returns the
\* text with a warning
MindsweepAdd(r) ==
    /\ req[r].pc = "writing"
    /\ \/ \E id \in NewIds \ {d.id : d \in store} :
            /\ store' = store \cup {Document(r, id)}
            /\ lastAdd' = r
            /\ req' = [req EXCEPT ![r] =
                   [@ EXCEPT !.response = PersistedResponse(req[r].clarity),
                             !.pc = "done", !.outcome = "returned"]]
       \/ /\ UNCHANGED <<store, lastAdd>>
          /\ req' = [req EXCEPT ![r] =
                 [@ EXCEPT !.response = PersistFailedResponse(req[r].clarity),
                           !.log = Append(@, "firestore_error"),
                           !.pc = "done", !.outcome = "returned"]]
    /\ UNCHANGED <<text, label, clock, hist>>

---------------------------------------------------------------------------
(* GET /history *)

\* Firestore's order on the index of order_by("timestamp", DESCENDING):
\* by timestamp, and among equal timestamps by document id
ComesBefore(x, y) ==
    \/ x.timestamp > y.timestamp
    \/ x.timestamp = y.timestamp /\ x.id >= y.id

\* the documents of S from the last of the index to the first
RECURSIVE LastToFirst(_)
LastToFirst(S) ==
    IF S = {} THEN <<>>
    ELSE LET last == CHOOSE x \in S : \A y \in S : ComesBefore(y, x)
         IN <<last>> \o LastToFirst(S \ {last})

Reverse(s) == [i \in 1..Len(s) |-> s[Len(s) + 1 - i]]

\* .order_by("timestamp", direction=DESCENDING) over a set of documents
OrderByTimestampDescending(S) == Reverse(LastToFirst(S))

\* .limit(n)
Limit(docs, n) == SubSeq(docs, 1, IF Len(docs) < n THEN Len(docs) ELSE n)

\* the query without .limit(20)
QueryNoLimit(S) == OrderByTimestampDescending(S)
\* lines 263-268: the documents the query streams
Query(S) == Limit(OrderByTimestampDescending(S), HISTORY_LIMIT)

\* datetime.isoformat(): the ISO-8601 string of a timestamp, as the marker
\* "T" with the tick; "" is the empty sequence
isoformat(t) == <<"T", t>>

\* lines 272-277: one streamed document as the history lists it
Entry(d) ==
    [message |-> d.message, clarity |-> d.clarity,
     timestamp |-> IF d.timestamp # -1 THEN isoformat(d.timestamp) ELSE <<>>]

\* the handler if its except branch returned the entries appended so far
HistoryReturnedPartial(docs, appended) ==
    IF appended = -1 THEN [i \in 1..Len(docs) |-> Entry(docs[i])]
    ELSE [i \in 1..appended |-> Entry(docs[i])]
\* lines 270-283: the list returned when the exception is raised after
\* `appended` entries were appended (-1: no exception)
HistoryReturned(docs, appended) ==
    IF appended = -1 THEN [i \in 1..Len(docs) |-> Entry(docs[i])]
    ELSE <<>>

\* how many entries were appended when the read failed
FailurePoints(docs) == 0..(IF Len(docs) < MaxAppended THEN Len(docs) ELSE MaxAppended)

NoHistory ==
    [status |-> "none", outcome |-> "pending", appended |-> -1,
     history |-> <<>>, read |-> {}, left |-> {}, after |-> 0]

\* lines 260-283: the whole handler.  The read fails when the query is
\* issued (no entry appended yet), or while a document is streamed or
\* serialized (after some entries were appended), or not at all
GetHistory ==
    /\ UNCHANGED <<text, label, store, clock, req, lastAdd>>
    /\ LET docs == Query(store)
       IN \E appended \in FailurePoints(docs) \cup {-1} :
            hist' = [status |-> IF appended = -1 THEN "ok" ELSE "failed",
                     outcome |-> "returned",
                     appended |-> appended,
                     history |-> HistoryReturned(docs, appended),
                     read |-> store,
                     left |-> store',
                     after |-> lastAdd]

---------------------------------------------------------------------------
(* The service *)

Init ==
    /\ text = <<>>
    /\ label = "unclassified"
    /\ \E k \in InitialCounts :
         /\ store = EarlierStore(k)
         /\ clock = (k + 1) \div 2
    /\ req = [r \in Requests |-> IdleRequest]
    /\ lastAdd = 0
    /\ hist = NoHistory

Next ==
    \/ \E r \in Requests : MindsweepPrimary(r)
    \/ \E r \in Requests : MindsweepFallback(r)
    \/ \E r \in Requests : MindsweepStamp(r)
    \/ \E r \in Requests : MindsweepAdd(r)
    \/ GetHistory

Spec == Init /\ [][Next]_vars

---------------------------------------------------------------------------
(* detect_language on its own: every text up to MaxLen over Alphabet *)

Classify ==
    /\ label = "unclassified"
    /\ label' = detect_language(text)
    /\ UNCHANGED <<text, store, clock, req, lastAdd, hist>>

InitClassify ==
    /\ text \in TextsUpTo(MaxLen)
    /\ label = "unclassified"
    /\ store = {}
    /\ clock = 0
    /\ req = [r \in Requests |-> IdleRequest]
    /\ lastAdd = 0
    /\ hist = NoHistory

NextClassify == Classify

SpecClassify == InitClassify /\ [][NextClassify]_vars

---------------------------------------------------------------------------
(* What the claims speak of *)

Done(r) == req[r].pc = "done"

PrimaryFailed(r) == Len(req[r].calls) >= 1 /\ ~req[r].calls[1].result.ok

FallbackFailed(r) == Len(req[r].calls) >= 2 /\ ~req[r].calls[2].result.ok

FallbackSucceeded(r) == Len(req[r].calls) >= 2 /\ req[r].calls[2].result.ok

CompletionSucceeded(r) ==
    Len(req[r].calls) >= 1 /\ req[r].calls[Len(req[r].calls)].result.ok

\* the text the model call that succeeded gave back
GeneratedText(r) == req[r].calls[Len(req[r].calls)].result.text

HasField(response, key) == \E p \in response : p[1] = key

Fields(response) == {p[1] : p \in response}

RecordsOf(r) == {d \in store : d.by = r}

\* the prompt has a part of this kind with this value
PromptEmbeds(prompt, kind, value) ==
    \E i \in 1..Len(prompt) : prompt[i][1] = kind /\ prompt[i][2] = value

---------------------------------------------------------------------------
(* C1 *)

\* C1: when the primary and the fallback model call both fail, the handler
\* returns a response body carrying an error field; no exception escapes.
C1_BothFailReturnsError ==
    \A r \in Requests :
        (PrimaryFailed(r) /\ FallbackFailed(r))
            => /\ req[r].outcome = "returned"
               /\ HasField(req[r].response, "error")

---------------------------------------------------------------------------
(* C2 *)

\* C2: the prompt sent to the model embeds the language directive chosen
\* from the classifier's label and the user's message verbatim, so two
\* requests whose messages differ are sent different prompts.
C2_PromptEmbedsDirectiveAndMessage ==
    /\ \A r \in Requests : \A i \in 1..Len(req[r].calls) :
          /\ PromptEmbeds(req[r].calls[i].prompt, "language_instruction",
                          LanguageInstruction(detect_language(req[r].message)))
          /\ PromptEmbeds(req[r].calls[i].prompt, "message", req[r].message)
    /\ \A r1, r2 \in Requests :
          (/\ req[r1].calls # <<>>
           /\ req[r2].calls # <<>>
           /\ req[r1].message # req[r2].message)
              => req[r1].calls[1].prompt # req[r2].calls[1].prompt

---------------------------------------------------------------------------
(* C3 *)

\* C3: when the completion succeeded and the store write then fails, the
\* handler returns the generated text together with a warning field, and no
\* exception escapes; the text is not discarded.
C3_WriteFailureKeepsClarity ==
    \A r \in Requests :
        (Done(r) /\ CompletionSucceeded(r) /\ RecordsOf(r) = {})
            => /\ req[r].outcome = "returned"
               /\ <<"clarity", GeneratedText(r)>> \in req[r].response
               /\ HasField(req[r].response, "warning")

C3_Witness ==
    \E r \in Requests :
        /\ Done(r) /\ FallbackSucceeded(r) /\ RecordsOf(r) = {}
        /\ req[r].outcome = "returned"
        /\ HasField(req[r].response, "warning")

---------------------------------------------------------------------------
(* C4 *)

\* C4 as claimed: when the primary call fails and the fallback succeeds, the
\* response has a clarity field equal to the fallback's text and a
\* model_used field equal to the fallback model identifier.
C4_FallbackResponseNamesModel ==
    \A r \in Requests :
        (Done(r) /\ PrimaryFailed(r) /\ FallbackSucceeded(r))
            => /\ <<"clarity", req[r].calls[2].result.text>> \in req[r].response
               /\ <<"model_used", FALLBACK_MODEL>> \in req[r].response

\* C4 as amended: when the primary call fails and the fallback succeeds, the
\* response has a clarity field equal to the fallback's text, no model_used
\* field and no field but clarity and warning; the primary's failure is in
\* the log alone.
C4_FallbackResponseCarriesText ==
    \A r \in Requests :
        (Done(r) /\ PrimaryFailed(r) /\ FallbackSucceeded(r))
            => /\ req[r].outcome = "returned"
               /\ <<"clarity", req[r].calls[2].result.text>> \in req[r].response
               /\ ~HasField(req[r].response, "model_used")
               /\ Fields(req[r].response) \subseteq {"clarity", "warning"}
               /\ \E i \in 1..Len(req[r].log) : req[r].log[i] = "main_failed"

C4_Witness ==
    \E r \in Requests :
        /\ Done(r) /\ PrimaryFailed(r) /\ FallbackSucceeded(r)
        /\ req[r].calls[2].model = FALLBACK_MODEL
        /\ req[r].response = { <<"clarity", "clarity-B">> }

---------------------------------------------------------------------------
(* C5 *)

\* C5: within one request the fallback model is called only after the
\* primary call has failed; when the primary call returns text the fallback
\* is never called; at most two calls are made, the primary once and the
\* fallback at most once, both with the same prompt.
C5_FallbackOnlyAfterPrimaryFailure ==
    \A r \in Requests :
        LET calls == req[r].calls
        IN /\ Len(calls) <= 2
           /\ Len(calls) >= 1 => calls[1].model = MAIN_MODEL
           /\ (Len(calls) >= 1 /\ calls[1].result.ok) => Len(calls) = 1
           /\ Len(calls) = 2 =>
                 /\ calls[2].model = FALLBACK_MODEL
                 /\ ~calls[1].result.ok
                 /\ calls[2].prompt = calls[1].prompt

C5_Witness ==
    \E r1, r2 \in Requests :
        /\ Done(r1) /\ Len(req[r1].calls) = 1 /\ req[r1].calls[1].result.ok
        /\ Done(r2) /\ Len(req[r2].calls) = 2
        /\ req[r2].calls[2].model = FALLBACK_MODEL

---------------------------------------------------------------------------
(* C6 *)

\* C6: after any interleaving of requests, each request has added at most
\* one record to the store, and a request whose primary and fallback calls
\* both failed has added none.
C6_AtMostOneRecordPerRequest ==
    \A r \in Requests :
        /\ Cardinality(RecordsOf(r)) <= 1
        /\ (PrimaryFailed(r) /\ FallbackFailed(r)) => RecordsOf(r) = {}
        /\ ~Done(r) => RecordsOf(r) = {}

C6_Witness ==
    \E r1, r2 \in Requests :
        /\ Done(r1) /\ PrimaryFailed(r1) /\ FallbackFailed(r1)
        /\ Done(r2) /\ Cardinality(RecordsOf(r2)) = 1

---------------------------------------------------------------------------
(* C7 *)

\* C7: after a request whose completion and store write both succeeded, a
\* GET /history with no write in between returns as its first entry a record
\* whose message is the posted message and whose clarity is the text
\* returned to the caller.
C7_HistoryStartsWithLastPost ==
    \A r \in Requests :
        (hist.status = "ok" /\ hist.after = r /\ Done(r))
            => /\ Len(hist.history) >= 1
               /\ hist.history[1].message = req[r].message
               /\ <<"clarity", hist.history[1].clarity>> \in req[r].response

---------------------------------------------------------------------------
(* C8 *)

\* the tick of an entry's timestamp string
EntryTick(e) == e.timestamp[2]

CountAfter(n, limit) == IF n < limit THEN n ELSE limit

\* C8: a successful GET /history returns at most 20 records, each a record
\* of the store, ordered by timestamp non-increasing, and when the store
\* holds more than 20 they are the 20 with the latest timestamps.
C8_HistoryIsNewestTwenty ==
    hist.status = "ok" =>
        LET h == hist.history
        IN /\ Len(h) <= 20
           /\ Len(h) = CountAfter(Cardinality(hist.read), 20)
           /\ \A i \in 1..Len(h) :
                 \E d \in hist.read :
                     /\ h[i].message = d.message
                     /\ h[i].clarity = d.clarity
                     /\ h[i].timestamp = <<"T", d.timestamp>>
           /\ \A i \in 1..(Len(h) - 1) : EntryTick(h[i]) >= EntryTick(h[i + 1])
           /\ \A t \in {d.timestamp : d \in hist.read} :
                 Cardinality({i \in 1..Len(h) : EntryTick(h[i]) >= t})
                     = CountAfter(Cardinality({d \in hist.read : d.timestamp >= t}), 20)

C8_Witness ==
    /\ hist.status = "ok"
    /\ Cardinality(hist.read) > 20
    /\ Len(hist.history) = 20
    /\ \E d \in hist.read : d.by # 0 /\ hist.history[1].message = d.message
    /\ \E i \in 1..19 : hist.history[i].timestamp = hist.history[i + 1].timestamp

---------------------------------------------------------------------------
(* C9 *)

\* C9: when the store read behind GET /history fails, at the query or after
\* some records were streamed, the handler returns an empty history list,
\* never a partial list and never a propagated failure, and the store is
\* left unchanged.
C9_ReadFailureGivesEmptyHistory ==
    hist.status = "failed" =>
        /\ hist.outcome = "returned"
        /\ hist.history = <<>>
        /\ hist.left = hist.read

C9_Witness ==
    /\ hist.status = "failed"
    /\ hist.appended >= 1
    /\ hist.read # {}
    /\ hist.history = <<>>

---------------------------------------------------------------------------
(* C10 *)

\* the number of Devanagari characters of the text, U+0900..U+097F
DevanagariCount == Cardinality({i \in 1..Len(text) : text[i] \in 2304..2431})

\* some word of the list occurs in the lower-cased text
KeywordOccurs ==
    LET lowered == Lower(text)
    IN \E k \in 1..Len(hinglish_words) :
          LET w == hinglish_words[k]
          IN \E i \in 0..(Len(lowered) - Len(w)) :
                \A j \in 1..Len(w) : lowered[i + j] = w[j]

\* C10: detect_language gives hindi when the text has more than 3
\* characters in U+0900..U+097F, whatever else it holds; otherwise hinglish
\* when the lower-cased text contains a listed keyword; otherwise english.
C10_LabelByFixedPriority ==
    label # "unclassified" =>
        /\ label \in {"hindi", "hinglish", "english"}
        /\ DevanagariCount > 3 => label = "hindi"
        /\ (DevanagariCount <= 3 /\ KeywordOccurs) => label = "hinglish"
        /\ (DevanagariCount <= 3 /\ ~KeywordOccurs) => label = "english"
        /\ text = <<>> => label = "english"

C10_Witness ==
    /\ label = "hindi"
    /\ KeywordOccurs
    /\ \E i \in 1..Len(text) : text[i] = 75

====
